---- MODULE Spec2Model ----
(***************************************************************************)
(* Model of crates/build/src/workspace/manifest.rs: the Manifest document, *)
(* its mutation operations, the path rewrite pass and write-back.          *)
(*                                                                         *)
(* A toml value is a tagged pair: <<"str", s>>, <<"bool", b>>,             *)
(* <<"arr", sequence of values>>, <<"tab", function from keys to values>>. *)
(* A string s is a sequence of tokens (pieces of text); the token "/" is   *)
(* the path separator, so that Path operations work on the text itself.    *)
(* The build modelled is the unix one (the cfg(windows) line is absent).   *)
(***************************************************************************)
EXTENDS Integers, Sequences, FiniteSets, TLC

VARIABLES
    pc,       \* "init" before Manifest::new, "loaded" after, "failed" when new returned Err
    toml,     \* Manifest.toml : value::Table (a function from keys to values)
    flag,     \* Manifest.metadata_package
    files,    \* the filesystem: file path -> contents
    dirs,     \* the filesystem: the directories that exist
    nOps,     \* number of operations applied since the load
    prev,     \* history: toml, flag, files, dirs before the last operation
    last      \* history: the last operation, its arguments and its result

vars == <<pc, toml, flag, files, dirs, nOps, prev, last>>

(* ------------------------------ bounds -------------------------------- *)
MaxOps == 2
MaxCrateTypes == 3
MaxBins == 2
MaxDeps == 2

(* ------------------------------ values -------------------------------- *)
Str(s) == <<"str", s>>
Bool(b) == <<"bool", b>>
Arr(a) == <<"arr", a>>
Tab(t) == <<"tab", t>>
S(tok) == Str(<<tok>>)

IsStr(v) == v[1] = "str"
IsArr(v) == v[1] = "arr"
IsTab(v) == v[1] = "tab"

EmptyTable == [k \in {} |-> <<>>]
Has(t, k) == k \in DOMAIN t
Put(t, k, v) == [x \in DOMAIN t \cup {k} |-> IF x = k THEN v ELSE t[x]]
\* Entry::or_insert: the table with k bound to v when k is vacant
OrInsert(t, k, v) == IF Has(t, k) THEN t ELSE Put(t, k, v)
\* Value::get / Value::get_mut with a string index: only a table has keys
ValueHas(v, k) == IsTab(v) /\ Has(v[2], k)

Ok(t) == [ok |-> TRUE, err |-> "", toml |-> t]
Err(e, t) == [ok |-> FALSE, err |-> e, toml |-> t]

(* ----------------------------- constants ------------------------------ *)
MANIFEST_FILE == "Cargo.toml"
LEGACY_METADATA_PACKAGE_PATH == <<".ink", "/", "abi_gen">>
METADATA_PACKAGE_PATH == <<".ink", "/", "metadata_gen">>

(* --------------------------- crate types ------------------------------ *)
crate_type_is_first(crate_type, crate_types) ==
    /\ Len(crate_types) > 0
    /\ IsStr(crate_types[1])
    /\ crate_types[1][2] = crate_type

crate_type_exists(crate_type, crate_types) ==
    \E i \in 1..Len(crate_types) :
        IsStr(crate_types[i]) /\ crate_types[i][2] = crate_type

\* [ok, err, arr]: the `[lib] crate-type` array, or the error
get_crate_types_mut(t) ==
    IF ~Has(t, "lib")
    THEN [ok |-> FALSE, err |-> "lib section not found", arr |-> <<>>]
    ELSE IF ~ValueHas(t["lib"], "crate-type")
    THEN [ok |-> FALSE, err |-> "crate-type section not found", arr |-> <<>>]
    ELSE IF ~IsArr(t["lib"][2]["crate-type"])
    THEN [ok |-> FALSE, err |-> "crate-types should be an Array", arr |-> <<>>]
    ELSE [ok |-> TRUE, err |-> "", arr |-> t["lib"][2]["crate-type"][2]]

\* the document with the `[lib] crate-type` array replaced through the &mut
SetCrateTypes(t, arr) ==
    Put(t, "lib", Tab(Put(t["lib"][2], "crate-type", Arr(arr))))

added_always_pushes(t, crate_type) ==
    LET r == get_crate_types_mut(t) IN
    IF ~r.ok THEN Err(r.err, t)
    ELSE Ok(SetCrateTypes(t, Append(r.arr, Str(crate_type))))

with_added_crate_type(t, crate_type) ==
    LET r == get_crate_types_mut(t) IN
    IF ~r.ok THEN Err(r.err, t)
    ELSE IF ~crate_type_exists(crate_type, r.arr)
         THEN Ok(SetCrateTypes(t, Append(r.arr, Str(crate_type))))
         ELSE Ok(t)

RECURSIVE DropFirst(_, _)
DropFirst(s, v) ==
    IF s = <<>> THEN <<>>
    ELSE IF Head(s) = v THEN Tail(s)
    ELSE <<Head(s)>> \o DropFirst(Tail(s), v)

removed_first_only(t, crate_type) ==
    LET r == get_crate_types_mut(t) IN
    IF ~r.ok THEN Err(r.err, t)
    ELSE IF crate_type_exists(crate_type, r.arr)
         THEN Ok(SetCrateTypes(t, DropFirst(r.arr, Str(crate_type))))
         ELSE Ok(t)

with_removed_crate_type(t, crate_type) ==
    LET r == get_crate_types_mut(t)
        keep(v) == IF IsStr(v) THEN v[2] /= crate_type ELSE TRUE
    IN
    IF ~r.ok THEN Err(r.err, t)
    ELSE IF crate_type_exists(crate_type, r.arr)
         THEN Ok(SetCrateTypes(t, SelectSeq(r.arr, keep)))
         ELSE Ok(t)

(* --------------------------- profile.release -------------------------- *)
release_table_replaced(t) ==
    LET t1 == OrInsert(t, "profile", Tab(EmptyTable)) IN
    IF ~IsTab(t1["profile"]) THEN [ok |-> FALSE, err |-> "profile should be a table", toml |-> t1]
    ELSE [ok |-> TRUE, err |-> "",
          toml |-> Put(t1, "profile", Tab(Put(t1["profile"][2], "release", Tab(EmptyTable))))]

\* [ok, err, toml]: toml is the document after the entry().or_insert() calls;
\* when ok, toml["profile"][2]["release"] is the table the &mut refers to
get_profile_release_table_mut(t) ==
    LET t1 == OrInsert(t, "profile", Tab(EmptyTable)) IN
    IF ~IsTab(t1["profile"]) THEN [ok |-> FALSE, err |-> "profile should be a table", toml |-> t1]
    ELSE LET p1 == OrInsert(t1["profile"][2], "release", Tab(EmptyTable))
             t2 == Put(t1, "profile", Tab(p1))
         IN IF ~IsTab(p1["release"])
            THEN [ok |-> FALSE, err |-> "release should be a table", toml |-> t2]
            ELSE [ok |-> TRUE, err |-> "", toml |-> t2]

SetRelease(t, rel) ==
    Put(t, "profile", Tab(Put(t["profile"][2], "release", Tab(rel))))

with_profile_release_lto(t, enabled) ==
    LET r == get_profile_release_table_mut(t) IN
    IF ~r.ok THEN Err(r.err, r.toml)
    ELSE LET rel  == r.toml["profile"][2]["release"][2]
             rel1 == OrInsert(rel, "lto", Bool(enabled))
         IN Ok(SetRelease(r.toml, Put(rel1, "lto", Bool(enabled))))

\* Profile::merge (workspace/profile.rs): set each default only where the key is vacant
merge(defaults, profile) ==
    [k \in DOMAIN profile \cup DOMAIN defaults |->
        IF k \in DOMAIN profile THEN profile[k] ELSE defaults[k]]

with_profile_release_defaults(t, defaults) ==
    LET r == get_profile_release_table_mut(t) IN
    IF ~r.ok THEN Err(r.err, r.toml)
    ELSE Ok(SetRelease(r.toml, merge(defaults, r.toml["profile"][2]["release"][2])))

(* ------------------------------ workspace ----------------------------- *)
workspace_replaced(t) == Ok(Put(t, "workspace", Tab(EmptyTable)))

with_workspace(t) ==
    IF ~Has(t, "workspace") THEN Ok(Put(t, "workspace", Tab(EmptyTable))) ELSE Ok(t)

Contains(seq, v) == \E i \in 1..Len(seq) : seq[i] = v

\* [ok, err, toml, flag]
metadata_package_flag_first(t, f) ==
    LET t1 == OrInsert(t, "workspace", Tab(EmptyTable)) IN
    IF ~IsTab(t1["workspace"])
    THEN [ok |-> FALSE, err |-> "workspace should be a table", toml |-> t1, flag |-> TRUE]
    ELSE LET w1 == OrInsert(t1["workspace"][2], "members", Arr(<<>>))
             t2 == Put(t1, "workspace", Tab(w1))
         IN IF ~IsArr(w1["members"])
            THEN [ok |-> FALSE, err |-> "members should be an array", toml |-> t2, flag |-> TRUE]
            ELSE LET members == w1["members"][2] IN
                 IF Contains(members, Str(LEGACY_METADATA_PACKAGE_PATH))
                 THEN [ok |-> TRUE, err |-> "", toml |-> t2, flag |-> TRUE]
                 ELSE [ok |-> TRUE, err |-> "", flag |-> TRUE,
                       toml |-> Put(t2, "workspace", Tab(Put(w1, "members",
                                   Arr(Append(members, Str(METADATA_PACKAGE_PATH))))))]

metadata_package_ignores_legacy(t, f) ==
    LET t1 == OrInsert(t, "workspace", Tab(EmptyTable)) IN
    IF ~IsTab(t1["workspace"])
    THEN [ok |-> FALSE, err |-> "workspace should be a table", toml |-> t1, flag |-> f]
    ELSE LET w1 == OrInsert(t1["workspace"][2], "members", Arr(<<>>))
             t2 == Put(t1, "workspace", Tab(w1))
         IN IF ~IsArr(w1["members"])
            THEN [ok |-> FALSE, err |-> "members should be an array", toml |-> t2, flag |-> f]
            ELSE [ok |-> TRUE, err |-> "", flag |-> TRUE,
                  toml |-> Put(t2, "workspace", Tab(Put(w1, "members",
                              Arr(Append(w1["members"][2], Str(METADATA_PACKAGE_PATH))))))]

with_metadata_package(t, f) ==
    LET t1 == OrInsert(t, "workspace", Tab(EmptyTable)) IN
    IF ~IsTab(t1["workspace"])
    THEN [ok |-> FALSE, err |-> "workspace should be a table", toml |-> t1, flag |-> f]
    ELSE LET w1 == OrInsert(t1["workspace"][2], "members", Arr(<<>>))
             t2 == Put(t1, "workspace", Tab(w1))
         IN IF ~IsArr(w1["members"])
            THEN [ok |-> FALSE, err |-> "members should be an array", toml |-> t2, flag |-> f]
            ELSE LET members == w1["members"][2] IN
                 IF Contains(members, Str(LEGACY_METADATA_PACKAGE_PATH))
                 THEN [ok |-> TRUE, err |-> "", toml |-> t2, flag |-> TRUE]
                 ELSE [ok |-> TRUE, err |-> "", flag |-> TRUE,
                       toml |-> Put(t2, "workspace", Tab(Put(w1, "members",
                                   Arr(Append(members, Str(METADATA_PACKAGE_PATH))))))]

ink_dylint ==
    Tab([git     |-> Str(<<"https:", "/", "/", "github.com", "/", "paritytech", "/", "ink", "/">>),
         tag     |-> S("v4.0.0-alpha.3"),
         pattern |-> Str(<<"linting", "/">>)])

with_dylint(t) ==
    LET t1 == OrInsert(t, "workspace", Tab(EmptyTable)) IN
    IF ~IsTab(t1["workspace"]) THEN Err("workspace section should be a table", t1)
    ELSE
    LET w1 == OrInsert(t1["workspace"][2], "metadata", Tab(EmptyTable))
        t2 == Put(t1, "workspace", Tab(w1))
    IN
    IF ~IsTab(w1["metadata"]) THEN Err("workspace.metadata section should be a table", t2)
    ELSE
    LET m1 == OrInsert(w1["metadata"][2], "dylint", Tab(EmptyTable))
        w2 == Put(w1, "metadata", Tab(m1))
        t3 == Put(t2, "workspace", Tab(w2))
    IN
    IF ~IsTab(m1["dylint"]) THEN Err("workspace.metadata.dylint section should be a table", t3)
    ELSE
    LET d1 == OrInsert(m1["dylint"][2], "libraries", Arr(<<>>))
        m2 == Put(m1, "dylint", Tab(d1))
        w3 == Put(w2, "metadata", Tab(m2))
        t4 == Put(t3, "workspace", Tab(w3))
    IN
    IF ~IsArr(d1["libraries"])
    THEN Err("workspace.metadata.dylint.libraries section should be an array", t4)
    ELSE LET d2 == Put(d1, "libraries", Arr(Append(d1["libraries"][2], ink_dylint)))
         IN Ok(Put(t4, "workspace", Tab(Put(w3, "metadata", Tab(Put(m2, "dylint", Tab(d2)))))))

(* -------------------------------- paths ------------------------------- *)
\* Path::is_relative on unix: the text does not start with the root separator
is_relative(path) == ~(Len(path) > 0 /\ path[1] = "/")

\* Path::join / PathBuf::push
join(base, path) ==
    IF ~is_relative(path) THEN path
    ELSE IF Len(base) > 0 /\ base[Len(base)] /= "/" THEN base \o <<"/">> \o path
    ELSE base \o path

join_ignores_absolute(base, path) ==
    IF Len(base) > 0 /\ base[Len(base)] /= "/" THEN base \o <<"/">> \o path
    ELSE base \o path

\* Path::to_string_lossy: a piece that is not UTF-8 becomes U+FFFD
InvalidUtf8 == "\\xFF"
ReplacementChar == "U+FFFD"
to_string_lossy(path) ==
    [i \in 1..Len(path) |-> IF path[i] = InvalidUtf8 THEN ReplacementChar ELSE path[i]]

LibDefault == <<"src", "/", "lib.rs">>
BinDefault == <<"src", "/", "main.rs">>

\* [ok, err, val]: val is the path value after the call
absolute_path_always_joins(dir, existing_path) ==
    IF ~IsStr(existing_path)
    THEN [ok |-> FALSE, err |-> "should be a string", val |-> existing_path]
    ELSE [ok |-> TRUE, err |-> "",
          val |-> Str(to_string_lossy(join_ignores_absolute(dir, existing_path[2])))]

to_absolute_path(dir, existing_path) ==
    IF ~IsStr(existing_path)
    THEN [ok |-> FALSE, err |-> "should be a string", val |-> existing_path]
    ELSE IF is_relative(existing_path[2])
         THEN [ok |-> TRUE, err |-> "", val |-> Str(to_string_lossy(join(dir, existing_path[2])))]
         ELSE [ok |-> TRUE, err |-> "", val |-> existing_path]

\* a path is the sequence of the names between its separators
Components(text) == LET name(tok) == tok /= "/" IN SelectSeq(text, name)
\* Path::exists, of a path relative to the working directory
exists(fs_files, path) == Components(path) \in DOMAIN fs_files

\* [ok, err, val]: val is the section's value after the call
rewrite_path(dir, fs_files, table_value, default) ==
    IF ~IsTab(table_value)
    THEN [ok |-> FALSE, err |-> "section should be a table", val |-> table_value]
    ELSE IF Has(table_value[2], "path")
    THEN LET r == to_absolute_path(dir, table_value[2]["path"]) IN
         [ok |-> r.ok, err |-> r.err, val |-> Tab(Put(table_value[2], "path", r.val))]
    ELSE IF ~exists(fs_files, default)
    THEN [ok |-> FALSE, err |-> "No path specified, and the default was not found",
          val |-> table_value]
    ELSE [ok |-> TRUE, err |-> "",
          val |-> Tab(Put(table_value[2], "path", Str(to_string_lossy(join(dir, default)))))]

\* the `for bin in bins` loop: entries 1..i-1 are done; stops at the first error
RECURSIVE rewrite_bins(_, _, _, _)
rewrite_bins(dir, fs_files, bins, i) ==
    IF i > Len(bins) THEN [ok |-> TRUE, err |-> "", val |-> bins]
    ELSE LET r == rewrite_path(dir, fs_files, bins[i], BinDefault) IN
         IF ~r.ok THEN [ok |-> FALSE, err |-> r.err, val |-> bins]
         ELSE rewrite_bins(dir, fs_files, [bins EXCEPT ![i] = r.val], i + 1)

\* iteration order of the table (a BTreeMap): the keys in ascending order
KeyOrder == <<"bar", "foo", "ink">>
InTable(table) == LET in(k) == k \in DOMAIN table IN SelectSeq(KeyOrder, in)

package_name_is_key(name, value) == <<name>>

\* the name `exclude_deps` is searched for: the string `package`, else the key
package_name(name, value) ==
    IF ValueHas(value, "package") /\ IsStr(value[2]["package"])
    THEN value[2]["package"][2]
    ELSE <<name>>

\* the `for (name, value) in table` loop over the keys still to visit
RECURSIVE rewrite_dep_entries(_, _, _, _)
rewrite_dep_entries(dir, exclude_deps, table, keys) ==
    IF keys = <<>> THEN [ok |-> TRUE, err |-> "", val |-> table]
    ELSE LET name  == Head(keys)
             value == table[name]
         IN IF package_name(name, value) \notin exclude_deps
               /\ IsTab(value) /\ Has(value[2], "path")
            THEN LET r == to_absolute_path(dir, value[2]["path"]) IN
                 IF ~r.ok THEN [ok |-> FALSE, err |-> r.err, val |-> table]
                 ELSE rewrite_dep_entries(dir, exclude_deps,
                          [table EXCEPT ![name] = Tab(Put(value[2], "path", r.val))],
                          Tail(keys))
            ELSE rewrite_dep_entries(dir, exclude_deps, table, Tail(keys))

rewrite_dependencies_relative_paths(dir, exclude_deps, t, section_name) ==
    IF ~Has(t, section_name) THEN Ok(t)
    ELSE IF ~IsTab(t[section_name]) THEN Err("dependencies should be a table", t)
    ELSE LET r == rewrite_dep_entries(dir, exclude_deps, t[section_name][2],
                                      InTable(t[section_name][2]))
         IN [ok |-> r.ok, err |-> r.err, toml |-> Put(t, section_name, Tab(r.val))]

\* PathRewrite::rewrite_relative_paths
path_rewrite(dir, exclude_deps, fs_files, t) ==
    LET lib == IF Has(t, "lib") THEN rewrite_path(dir, fs_files, t["lib"], LibDefault)
               ELSE [ok |-> TRUE, err |-> "", val |-> <<>>]
        t1  == IF Has(t, "lib") THEN Put(t, "lib", lib.val) ELSE t
    IN
    IF ~lib.ok THEN Err(lib.err, t1)
    ELSE IF Has(t1, "bin") /\ ~IsArr(t1["bin"])
    THEN Err("'[[bin]]' section should be a table array", t1)
    ELSE
    LET bin == IF Has(t1, "bin") THEN rewrite_bins(dir, fs_files, t1["bin"][2], 1)
               ELSE [ok |-> TRUE, err |-> "", val |-> <<>>]
        t2  == IF Has(t1, "bin") THEN Put(t1, "bin", Arr(bin.val)) ELSE t1
    IN
    IF ~bin.ok THEN Err(bin.err, t2)
    ELSE
    LET deps == rewrite_dependencies_relative_paths(dir, exclude_deps, t2, "dependencies") IN
    IF ~deps.ok THEN deps
    ELSE rewrite_dependencies_relative_paths(dir, exclude_deps, deps.toml, "dev-dependencies")

(* ----------------------------- ManifestPath --------------------------- *)
\* a ManifestPath is the sequence of its components, the file name last
None == [some |-> FALSE, dir |-> <<>>]
Some(d) == [some |-> TRUE, dir |-> d]

directory(manifest_path) ==
    IF manifest_path = <<MANIFEST_FILE>> THEN None
    ELSE Some(SubSeq(manifest_path, 1, Len(manifest_path) - 1))

\* the manifest the user keeps, and the places write is asked to write to
OriginPath == <<"proj", MANIFEST_FILE>>
Targets == {OriginPath, <<"tmp", MANIFEST_FILE>>, <<MANIFEST_FILE>>}

\* Manifest::rewrite_relative_paths; canon is what canonicalize returned for
\* the manifest's directory: None (an io error) or Some(the absolute directory)
rewrite_relative_paths(t, canon, exclude_deps, fs_files) ==
    IF ~canon.some THEN Err("canonicalize", t)
    ELSE path_rewrite(canon.dir, exclude_deps, fs_files, t)

(* ------------------------------ filesystem ---------------------------- *)
Prefixes(d) == {SubSeq(d, 1, i) : i \in 1..Len(d)}
\* fs::create_dir_all
create_dir_all(fs_dirs, d) == fs_dirs \cup Prefixes(d)

\* toml::to_string / toml::from_str: the text of a manifest is represented by
\* the table it encodes; any other contents do not parse
to_string(t) == <<"toml", t>>
Malformed == <<"garbage">>
from_str(text) ==
    IF text[1] = "toml" THEN [ok |-> TRUE, toml |-> text[2]]
    ELSE [ok |-> FALSE, toml |-> EmptyTable]

\* Manifest::new: [ok, err, toml, flag]
new(fs_files, manifest_path) ==
    IF manifest_path \notin DOMAIN fs_files
    THEN [ok |-> FALSE, err |-> "Loading Cargo.toml", toml |-> EmptyTable, flag |-> FALSE]
    ELSE LET r == from_str(fs_files[manifest_path]) IN
         IF ~r.ok THEN [ok |-> FALSE, err |-> "parse", toml |-> EmptyTable, flag |-> FALSE]
         ELSE [ok |-> TRUE, err |-> "", toml |-> r.toml, flag |-> FALSE]

\* metadata::generate_package (workspace/metadata.rs): materializes the
\* auxiliary package in dir from the contract's name and its ink dependency
generate_package(fs_files, dir, name, ink_crate) ==
    Put(fs_files, dir \o <<MANIFEST_FILE>>, <<"metadata_gen", name, ink_crate>>)

\* the directory write creates for the metadata package
metadata_dir(manifest_path) ==
    IF directory(manifest_path).some
    THEN directory(manifest_path).dir \o Components(METADATA_PACKAGE_PATH)
    ELSE Components(METADATA_PACKAGE_PATH)

\* the `if self.metadata_package` block of write, after its create_dir_all:
\* [ok, err, files]
write_metadata_package(t, manifest_path, fs_files, io) ==
    IF ~Has(t, "package")
    THEN [ok |-> FALSE, err |-> "package section not found", files |-> fs_files]
    ELSE IF ~ValueHas(t["package"], "name")
    THEN [ok |-> FALSE, err |-> "[package] name field not found", files |-> fs_files]
    ELSE IF ~IsStr(t["package"][2]["name"])
    THEN [ok |-> FALSE, err |-> "[package] name should be a string", files |-> fs_files]
    ELSE IF ~Has(t, "dependencies")
    THEN [ok |-> FALSE, err |-> "[dependencies] section not found", files |-> fs_files]
    ELSE IF ~ValueHas(t["dependencies"], "ink")
    THEN [ok |-> FALSE, err |-> "ink dependency not found", files |-> fs_files]
    ELSE IF ~IsTab(t["dependencies"][2]["ink"])
    THEN [ok |-> FALSE, err |-> "ink dependency should be a table", files |-> fs_files]
    ELSE IF io = "generate_package"
    THEN [ok |-> FALSE, err |-> "io", files |-> fs_files]
    ELSE [ok |-> TRUE, err |-> "",
          files |-> generate_package(fs_files, metadata_dir(manifest_path),
                                     t["package"][2]["name"][2],
                                     t["dependencies"][2]["ink"])]

write_fields_before_dir(t, f, manifest_path, fs_files, fs_dirs, io) ==
    LET dir == directory(manifest_path)
        d1  == IF dir.some THEN create_dir_all(fs_dirs, dir.dir) ELSE fs_dirs
        m   == write_metadata_package(t, manifest_path, fs_files, io)
    IN
    IF f /\ ~m.ok THEN [ok |-> FALSE, err |-> m.err, files |-> fs_files, dirs |-> d1]
    ELSE [ok |-> TRUE, err |-> "",
          files |-> Put(IF f THEN m.files ELSE fs_files, manifest_path, to_string(t)),
          dirs |-> IF f THEN create_dir_all(d1, metadata_dir(manifest_path)) ELSE d1]

write_to_origin(t, f, manifest_path, fs_files, fs_dirs, io) ==
    IF io /= "ok" THEN [ok |-> FALSE, err |-> "io", files |-> fs_files, dirs |-> fs_dirs]
    ELSE [ok |-> TRUE, err |-> "", dirs |-> fs_dirs,
          files |-> Put(fs_files, OriginPath, to_string(t))]

\* Manifest::write; io names the call the filesystem (or the encoder) refuses,
\* "ok" when none: [ok, err, files, dirs]
write(t, f, manifest_path, fs_files, fs_dirs, io) ==
    LET dir == directory(manifest_path) IN
    IF dir.some /\ io = "create_dir"
    THEN [ok |-> FALSE, err |-> "io", files |-> fs_files, dirs |-> fs_dirs]
    ELSE
    LET d1 == IF dir.some THEN create_dir_all(fs_dirs, dir.dir) ELSE fs_dirs IN
    IF f /\ io = "create_metadata_dir"
    THEN [ok |-> FALSE, err |-> "io", files |-> fs_files, dirs |-> d1]
    ELSE
    LET d2 == IF f THEN create_dir_all(d1, metadata_dir(manifest_path)) ELSE d1
        m  == IF f THEN write_metadata_package(t, manifest_path, fs_files, io)
              ELSE [ok |-> TRUE, err |-> "", files |-> fs_files]
    IN
    IF ~m.ok THEN [ok |-> FALSE, err |-> m.err, files |-> m.files, dirs |-> d2]
    ELSE IF io = "to_string"
    THEN [ok |-> FALSE, err |-> "serialize", files |-> m.files, dirs |-> d2]
    ELSE IF io = "write"
    THEN [ok |-> FALSE, err |-> "io", files |-> m.files, dirs |-> d2]
    ELSE [ok |-> TRUE, err |-> "", dirs |-> d2,
          files |-> Put(m.files, manifest_path, to_string(t))]

(* ------------------------------ documents ----------------------------- *)
Base ==
    [package      |-> Tab([name |-> S("flipper"), version |-> S("0.1.0")]),
     lib          |-> Tab(("crate-type" :> Arr(<<S("cdylib")>>)) @@ ("path" :> Str(LibDefault))),
     dependencies |-> Tab([ink |-> Tab([version |-> S("4.0")])])]

With(k, v) == Put(Base, k, v)
Without(k) == [x \in DOMAIN Base \ {k} |-> Base[x]]

RelPath == <<"..", "/", "dep">>
AbsPath == <<"/", "opt", "/", "dep">>

LibValues ==
    { S("lib"),
      Tab(EmptyTable),
      Tab("crate-type" :> S("cdylib")),
      Tab(("crate-type" :> Arr(<<S("cdylib"), S("rlib"), S("cdylib")>>)) @@ ("name" :> S("flipper"))),
      Tab(("crate-type" :> Arr(<<S("rlib")>>)) @@ ("path" :> Str(AbsPath))) }

ProfileValues ==
    { S("profile"),
      Tab(EmptyTable),
      Tab([release |-> S("fast")]),
      Tab([release |-> Tab("opt-level" :> S("s"))]),
      Tab([release |-> Tab(("lto" :> Bool(FALSE)) @@ ("panic" :> S("unwind"))),
           dev     |-> Tab("opt-level" :> S("0"))]) }

WorkspaceValues ==
    { S("workspace"),
      Tab(EmptyTable),
      Tab([members |-> S("all")]),
      Tab([members |-> Arr(<<Str(LEGACY_METADATA_PACKAGE_PATH)>>), exclude |-> Arr(<<S("target")>>)]),
      Tab([members |-> Arr(<<S("contracts"), Str(LEGACY_METADATA_PACKAGE_PATH)>>)]),
      Tab([members |-> Arr(<<S("contracts")>>)]),
      Tab([metadata |-> S("none")]),
      Tab([metadata |-> Tab([dylint |-> S("none")])]),
      Tab([metadata |-> Tab([dylint |-> Tab([libraries |-> S("none")])])]),
      Tab([metadata |-> Tab([dylint |-> Tab([libraries |-> Arr(<<Tab([path |-> S("lints")])>>)]),
                             docs   |-> S("on")])]) }

PackageValues ==
    { S("flipper"), Tab(EmptyTable), Tab([name |-> Bool(TRUE)]) }

DependencyValues ==
    { S("none"),
      Tab(EmptyTable),
      Tab([ink |-> S("4.0")]),
      Tab([ink |-> Tab([path |-> Str(RelPath)]), foo |-> Tab([path |-> Str(RelPath)])]) }

BinValues ==
    { S("bin"),
      Arr(<<Tab([name |-> S("tool"), path |-> Str(<<"src", "/", "tool.rs">>)])>>),
      Arr(<<Tab([name |-> S("tool")])>>) }

\* a contract's manifest with one section varied
Docs ==
    {Base, EmptyTable}
    \cup {Without(k) : k \in {"lib", "package", "dependencies"}}
    \cup {With("lib", v) : v \in LibValues}
    \cup {With("profile", v) : v \in ProfileValues}
    \cup {With("workspace", v) : v \in WorkspaceValues}
    \cup {With("package", v) : v \in PackageValues}
    \cup {With("dependencies", v) : v \in DependencyValues}
    \cup {With("bin", v) : v \in BinValues}

\* manifests whose crate-type list ranges over every list up to MaxCrateTypes
CrateTypeValues == {S("cdylib"), S("rlib"), Bool(TRUE)}
CrateTypeLists == UNION {[1..n -> CrateTypeValues] : n \in 0..MaxCrateTypes}
LibDocs ==
    {With("lib", Tab(("crate-type" :> Arr(ct)) @@ ("name" :> S("flipper")))) : ct \in CrateTypeLists}
    \cup {Without("lib"), With("lib", Tab("crate-type" :> S("cdylib")))}

(* ------------------------------- inputs ------------------------------- *)
CrateTypes == {<<"cdylib">>, <<"rlib">>}
\* Profile values handed to with_profile_release_defaults
Defaults ==
    { ("opt-level" :> S("z")) @@ ("lto" :> Bool(TRUE)),
      ("panic" :> S("abort")) @@ ("opt-level" :> S("z")) }
Anchor == <<"/", "home", "/", "u", "/", "proj">>
AnchorNonUtf8 == <<"/", "home", "/", InvalidUtf8, "/", "proj">>
IoOutcomes == {"ok", "create_dir", "create_metadata_dir", "generate_package", "to_string", "write"}

(* ---------------------------- state machine --------------------------- *)
Snapshot == [toml |-> toml, flag |-> flag, files |-> files, dirs |-> dirs]
Call(op, args, ok, err) == [op |-> op, args |-> args, ok |-> ok, err |-> err]

\* what the working directory holds beside the manifest: the default sources
Source == <<"rust">>
Sources(defaults) == [p \in {Components(d) : d \in defaults} |-> Source]

InitWith(contents, sources) ==
    /\ pc = "init"
    /\ toml = EmptyTable
    /\ flag = FALSE
    /\ files \in {(OriginPath :> c) @@ Sources(ds) : c \in contents, ds \in sources}
                 \cup {EmptyTable}
    /\ dirs = {<<"proj">>}
    /\ nOps = 0
    /\ prev = [toml |-> EmptyTable, flag |-> FALSE, files |-> files, dirs |-> dirs]
    /\ last = Call("none", <<>>, TRUE, "")

Load ==
    /\ pc = "init"
    /\ LET r == new(files, OriginPath) IN
       /\ pc' = IF r.ok THEN "loaded" ELSE "failed"
       /\ toml' = r.toml
       /\ flag' = r.flag
       /\ last' = Call("new", <<>>, r.ok, r.err)
    /\ prev' = Snapshot
    /\ UNCHANGED <<files, dirs, nOps>>

\* an operation on the document alone; its error returns leave what the
\* &mut self calls had done by then
Mutate(op, args, r, f) ==
    /\ pc = "loaded"
    /\ nOps < MaxOps
    /\ toml' = r.toml
    /\ flag' = f
    /\ nOps' = nOps + 1
    /\ prev' = Snapshot
    /\ last' = Call(op, args, r.ok, r.err)
    /\ UNCHANGED <<pc, files, dirs>>

AddCrateType ==
    \E k \in CrateTypes :
        Mutate("with_added_crate_type", <<k>>, with_added_crate_type(toml, k), flag)

RemoveCrateType ==
    \E k \in CrateTypes :
        Mutate("with_removed_crate_type", <<k>>, with_removed_crate_type(toml, k), flag)

ProfileReleaseLto ==
    \E enabled \in BOOLEAN :
        Mutate("with_profile_release_lto", <<enabled>>,
               with_profile_release_lto(toml, enabled), flag)

ProfileReleaseDefaults ==
    \E defaults \in Defaults :
        Mutate("with_profile_release_defaults", <<defaults>>,
               with_profile_release_defaults(toml, defaults), flag)

Workspace == Mutate("with_workspace", <<>>, with_workspace(toml), flag)

MetadataPackage ==
    LET r == with_metadata_package(toml, flag) IN
    Mutate("with_metadata_package", <<>>, r, r.flag)

Dylint == Mutate("with_dylint", <<>>, with_dylint(toml), flag)

RewriteIn(canons, excludes) ==
    \E canon \in canons, exclude_deps \in excludes :
        Mutate("rewrite_relative_paths", <<canon, exclude_deps>>,
               rewrite_relative_paths(toml, canon, exclude_deps, files), flag)

Write ==
    \E manifest_path \in Targets, io \in IoOutcomes :
        LET r == write(toml, flag, manifest_path, files, dirs, io) IN
        /\ pc = "loaded"
        /\ nOps < MaxOps
        /\ files' = r.files
        /\ dirs' = r.dirs
        /\ nOps' = nOps + 1
        /\ prev' = Snapshot
        /\ last' = Call("write", <<manifest_path, io>>, r.ok, r.err)
        /\ UNCHANGED <<pc, toml, flag>>

\* the life of one Manifest: load, any operations, write-backs
Init == InitWith({to_string(d) : d \in Docs} \cup {Malformed}, {{LibDefault, BinDefault}})

Rewrite == RewriteIn({None, Some(Anchor)}, {{}, {<<"foo">>}})

Next ==
    \/ Load
    \/ AddCrateType
    \/ RemoveCrateType
    \/ ProfileReleaseLto
    \/ ProfileReleaseDefaults
    \/ Workspace
    \/ MetadataPackage
    \/ Dylint
    \/ Rewrite
    \/ Write

Spec == Init /\ [][Next]_vars

\* the crate-type operations on every crate-type list
InitLib == InitWith({to_string(d) : d \in LibDocs}, {{}})
NextLib == Load \/ AddCrateType \/ RemoveCrateType
SpecLib == InitLib /\ [][NextLib]_vars

\* the path rewrite on manifests whose path-bearing sections range over
\* every shape: up to MaxBins [[bin]] entries, up to MaxDeps dependencies
LibPathValues ==
    { S("lib"),
      Tab("crate-type" :> Arr(<<S("cdylib")>>)),
      Tab([path |-> Str(LibDefault)]),
      Tab([path |-> Str(AbsPath)]),
      Tab([path |-> Str(<<>>)]),
      Tab([path |-> Bool(TRUE)]) }
BinEntryValues ==
    { S("tool"),
      Tab([name |-> S("tool")]),
      Tab([name |-> S("tool"), path |-> Str(<<"src", "/", "tool.rs">>)]),
      Tab([path |-> Str(AbsPath)]),
      Tab([path |-> Bool(FALSE)]) }
BinLists == UNION {[1..n -> BinEntryValues] : n \in 0..MaxBins}
DepEntryValues ==
    { S("1.0"),
      Tab([version |-> S("1.0")]),
      Tab([path |-> Str(RelPath)]),
      Tab([path |-> Str(AbsPath)]),
      Tab([path |-> Str(RelPath), package |-> S("foo")]),
      Tab([path |-> Str(RelPath), package |-> S("baz")]),
      Tab([path |-> Str(RelPath), package |-> Bool(TRUE)]),
      Tab([path |-> Bool(TRUE)]) }
DepKeys == {KeyOrder[i] : i \in 1..MaxDeps}
DepTables == UNION {[ks -> DepEntryValues] : ks \in SUBSET DepKeys}
DevDependencyValues ==
    { S("none"),
      Tab([foo |-> Tab([path |-> Str(RelPath)]), bar |-> Tab([path |-> Str(RelPath)])]) }

RewriteDocs ==
    {Base, Without("lib")}
    \cup {Put(With("lib", l), "bin", Arr(b)) : l \in LibPathValues, b \in BinLists}
    \cup {With("dependencies", Tab(d)) : d \in DepTables}
    \cup {With("dev-dependencies", Tab(d)) : d \in DepTables}
    \cup {Put(With("dependencies", Tab(d)), "dev-dependencies", v) :
             d \in {[foo |-> Tab([path |-> Str(RelPath)])], [foo |-> Tab([path |-> Bool(TRUE)])]},
             v \in DevDependencyValues}

InitRewrite ==
    InitWith({to_string(d) : d \in RewriteDocs}, {{}, {LibDefault}, {LibDefault, BinDefault}})
RewriteAny == RewriteIn({Some(Anchor), Some(AnchorNonUtf8)}, {{}, {<<"foo">>}})
NextRewrite == Load \/ RewriteAny
SpecRewrite == InitRewrite /\ [][NextRewrite]_vars

(* ------------------------------ properties ---------------------------- *)
\* the last operation was op and it returned Ok
Acted(op) == pc = "loaded" /\ last.op = op /\ last.ok
\* the last operation was op, whatever it returned
Called(op) == pc = "loaded" /\ last.op = op

HasCrateTypeList(t) ==
    /\ "lib" \in DOMAIN t
    /\ t["lib"][1] = "tab"
    /\ "crate-type" \in DOMAIN t["lib"][2]
    /\ t["lib"][2]["crate-type"][1] = "arr"
CrateTypeList(t) == t["lib"][2]["crate-type"][2]
Occurs(list, v) == \E i \in 1..Len(list) : list[i] = v
Count(list, v) == Cardinality({i \in 1..Len(list) : list[i] = v})

\* C1: on a document with a crate-type list, adding kind K leaves the list as
\* it was when K is in it, appends K once at the end when it is not, and adding
\* K a second time changes nothing.
C1_AddOutputKindIdempotent ==
    Called("with_added_crate_type") /\ HasCrateTypeList(prev.toml) =>
        LET K   == <<"str", last.args[1]>>
            was == CrateTypeList(prev.toml)
            now == CrateTypeList(toml)
        IN /\ last.ok
           /\ Occurs(was, K) => now = was
           /\ ~Occurs(was, K) => now = was \o <<K>>
           /\ Count(now, K) = IF Occurs(was, K) THEN Count(was, K) ELSE 1
           /\ with_added_crate_type(toml, last.args[1]).ok
           /\ with_added_crate_type(toml, last.args[1]).toml = toml

C1_Witness ==
    /\ Acted("with_added_crate_type")
    /\ HasCrateTypeList(prev.toml)
    /\ Len(CrateTypeList(prev.toml)) >= 2
    /\ ~Occurs(CrateTypeList(prev.toml), <<"str", last.args[1]>>)
    /\ CrateTypeList(toml) = CrateTypeList(prev.toml) \o <<<<"str", last.args[1]>>>>

RECURSIVE WithoutAll(_, _)
WithoutAll(list, v) ==
    IF list = <<>> THEN <<>>
    ELSE IF Head(list) = v THEN WithoutAll(Tail(list), v)
    ELSE <<Head(list)>> \o WithoutAll(Tail(list), v)

\* C2: removing kind K leaves no K in the list however many there were, keeps
\* the other elements in their order, and leaves the list as it was when K is
\* not in it.
C2_RemoveOutputKindAll ==
    Called("with_removed_crate_type") /\ HasCrateTypeList(prev.toml) =>
        LET K   == <<"str", last.args[1]>>
            was == CrateTypeList(prev.toml)
            now == CrateTypeList(toml)
        IN /\ last.ok
           /\ ~Occurs(now, K)
           /\ now = WithoutAll(was, K)
           /\ ~Occurs(was, K) => now = was

C2_Witness ==
    /\ Acted("with_removed_crate_type")
    /\ HasCrateTypeList(prev.toml)
    /\ Count(CrateTypeList(prev.toml), <<"str", last.args[1]>>) >= 2
    /\ Len(CrateTypeList(toml)) = Len(CrateTypeList(prev.toml)) - 2
    /\ CrateTypeList(toml) /= <<>>

\* the table at profile.release, or the empty table where there is none
HasTable(t, k) == k \in DOMAIN t /\ t[k][1] = "tab"
HasRelease(t) == HasTable(t, "profile") /\ HasTable(t["profile"][2], "release")
ReleaseOf(t) == IF HasRelease(t) THEN t["profile"][2]["release"][2] ELSE EmptyTable
\* no profile, or a profile table with no release or a release table
ReleaseAvailable(t) ==
    \/ "profile" \notin DOMAIN t
    \/ HasTable(t, "profile") /\ "release" \notin DOMAIN t["profile"][2]
    \/ HasRelease(t)

\* C3: after apply_release_defaults succeeds, profile.release exists, every
\* key it had keeps its value and every key of the defaults it lacked has the
\* default's value; the call succeeds where the section is absent.
C3_MergeNotOverwrite ==
    Called("with_profile_release_defaults") =>
        LET defaults == last.args[1]
            was      == ReleaseOf(prev.toml)
            now      == ReleaseOf(toml)
        IN /\ last.ok <=> ReleaseAvailable(prev.toml)
           /\ last.ok =>
                /\ HasRelease(toml)
                /\ \A k \in DOMAIN was : k \in DOMAIN now /\ now[k] = was[k]
                /\ \A k \in DOMAIN defaults \ DOMAIN was :
                       k \in DOMAIN now /\ now[k] = defaults[k]
                /\ DOMAIN now = DOMAIN was \cup DOMAIN defaults

C3_Witness ==
    /\ Acted("with_profile_release_defaults")
    /\ HasRelease(prev.toml)
    /\ ReleaseOf(prev.toml) = ("opt-level" :> <<"str", <<"s">>>>)
    /\ last.args[1] = ("opt-level" :> <<"str", <<"z">>>>) @@ ("lto" :> <<"bool", TRUE>>)
    /\ ReleaseOf(toml) = ("opt-level" :> <<"str", <<"s">>>>) @@ ("lto" :> <<"bool", TRUE>>)

\* the workspace members, or the empty list where there is none
HasMembers(t) ==
    /\ HasTable(t, "workspace")
    /\ "members" \in DOMAIN t["workspace"][2]
    /\ t["workspace"][2]["members"][1] = "arr"
MembersOf(t) == IF HasMembers(t) THEN t["workspace"][2]["members"][2] ELSE <<>>
LegacyMember == <<"str", <<".ink", "/", "abi_gen">>>>
MetadataMember == <<"str", <<".ink", "/", "metadata_gen">>>>

\* C4: register_auxiliary_package leaves the members as they were when
\* ".ink/abi_gen" is one of them, appends ".ink/metadata_gen" as the one new
\* last member when it is not, and sets metadata_package in both cases.
C4_WorkspaceInjection ==
    Acted("with_metadata_package") =>
        LET was == MembersOf(prev.toml)
            now == MembersOf(toml)
        IN /\ flag = TRUE
           /\ HasMembers(toml)
           /\ Occurs(was, LegacyMember) => now = was
           /\ ~Occurs(was, LegacyMember) =>
                /\ Len(now) = Len(was) + 1
                /\ now = was \o <<MetadataMember>>

C4_Witness ==
    /\ Acted("with_metadata_package")
    /\ Occurs(MembersOf(prev.toml), LegacyMember)
    /\ Len(MembersOf(prev.toml)) = 2
    /\ MembersOf(toml) = MembersOf(prev.toml)
    /\ ~prev.flag /\ flag

C4_WitnessAppended ==
    /\ Acted("with_metadata_package")
    /\ MembersOf(prev.toml) = <<<<"str", <<"contracts">>>>>>
    /\ MembersOf(toml) = <<<<"str", <<"contracts">>>>, MetadataMember>>

\* the anchor of the last rewrite as text, and what the rewrite rule makes of
\* the text p of one path: p itself when it starts at the root, else anchor/p
AnchorText ==
    LET dir == last.args[1].dir IN
    [i \in 1..Len(dir) |-> IF dir[i] = "\\xFF" THEN "U+FFFD" ELSE dir[i]]
StartsAtRoot(p) == p /= <<>> /\ Head(p) = "/"
Anchored(p) == IF StartsAtRoot(p) THEN p ELSE AnchorText \o <<"/">> \o p
AbsoluteValue(v) == v[1] = "str" /\ StartsAtRoot(v[2])
HasPath(v) == v[1] = "tab" /\ "path" \in DOMAIN v[2]
\* the section value now is the value was, its path rewritten by the rule
PathRewritten(wasv, nowv) ==
    /\ HasPath(wasv) /\ HasPath(nowv)
    /\ wasv[2]["path"][1] = "str"
    /\ nowv = <<"tab", [wasv[2] EXCEPT !["path"] = <<"str", Anchored(wasv[2]["path"][2])>>]>>
\* the name the exclusion set is asked about
EffectiveName(key, entry) ==
    IF entry[1] = "tab" /\ "package" \in DOMAIN entry[2] /\ entry[2]["package"][1] = "str"
    THEN entry[2]["package"][2]
    ELSE <<key>>
Excluded(key, entry) == EffectiveName(key, entry) \in last.args[2]
DependencySections == {"dependencies", "dev-dependencies"}

\* C5: a successful rewrite leaves a path that starts at the root as it was
\* and replaces any other path p by anchor/p; after it the path of lib, of
\* every bin entry and of every dependency and dev-dependency that is not
\* excluded is absolute.
C5_PathRewriteRule ==
    Acted("rewrite_relative_paths") =>
        /\ "lib" \in DOMAIN prev.toml =>
              /\ HasPath(toml["lib"]) /\ AbsoluteValue(toml["lib"][2]["path"])
              /\ HasPath(prev.toml["lib"]) => PathRewritten(prev.toml["lib"], toml["lib"])
        /\ "bin" \in DOMAIN prev.toml =>
              /\ Len(toml["bin"][2]) = Len(prev.toml["bin"][2])
              /\ \A i \in 1..Len(toml["bin"][2]) :
                    /\ HasPath(toml["bin"][2][i])
                    /\ AbsoluteValue(toml["bin"][2][i][2]["path"])
                    /\ HasPath(prev.toml["bin"][2][i]) =>
                          PathRewritten(prev.toml["bin"][2][i], toml["bin"][2][i])
        /\ \A sec \in DependencySections \cap DOMAIN prev.toml :
              \A k \in DOMAIN prev.toml[sec][2] :
                  HasPath(prev.toml[sec][2][k]) /\ ~Excluded(k, prev.toml[sec][2][k]) =>
                      /\ PathRewritten(prev.toml[sec][2][k], toml[sec][2][k])
                      /\ AbsoluteValue(toml[sec][2][k][2]["path"])

C5_Witness ==
    /\ Acted("rewrite_relative_paths")
    /\ last.args[1].dir = <<"/", "home", "/", "u", "/", "proj">>
    /\ "lib" \in DOMAIN prev.toml
    /\ HasPath(prev.toml["lib"])
    /\ prev.toml["lib"][2]["path"] = <<"str", <<"src", "/", "lib.rs">>>>
    /\ toml["lib"][2]["path"] =
          <<"str", <<"/", "home", "/", "u", "/", "proj", "/", "src", "/", "lib.rs">>>>
    /\ "bin" \in DOMAIN prev.toml /\ Len(prev.toml["bin"][2]) = 2
    /\ prev.toml["bin"][2][2] = toml["bin"][2][2]
    /\ HasPath(prev.toml["bin"][2][2])
    /\ AbsoluteValue(prev.toml["bin"][2][2][2]["path"])

\* C6: in a successful rewrite, an entry of dependencies or dev-dependencies
\* has its path rewritten exactly when it has a path and its effective package
\* name (its string `package`, else its key) is not excluded; every other
\* entry is left as it was.
C6_DependencyExclusion ==
    Acted("rewrite_relative_paths") =>
        \A sec \in DependencySections \cap DOMAIN prev.toml :
            /\ DOMAIN toml[sec][2] = DOMAIN prev.toml[sec][2]
            /\ \A k \in DOMAIN prev.toml[sec][2] :
                  LET wasv == prev.toml[sec][2][k]
                      nowv == toml[sec][2][k]
                  IN IF HasPath(wasv) /\ ~Excluded(k, wasv)
                     THEN PathRewritten(wasv, nowv)
                     ELSE nowv = wasv

C6_Witness ==
    /\ Acted("rewrite_relative_paths")
    /\ last.args[2] = {<<"foo">>}
    /\ DOMAIN prev.toml["dependencies"][2] = {"foo", "bar"}
    /\ prev.toml["dependencies"][2]["foo"] = <<"tab", [path |-> <<"str", <<"..", "/", "dep">>>>]>>
    /\ prev.toml["dependencies"][2]["bar"] = <<"tab", [path |-> <<"str", <<"..", "/", "dep">>>>]>>
    /\ toml["dependencies"][2]["foo"] = prev.toml["dependencies"][2]["foo"]
    /\ toml["dependencies"][2]["bar"] =
          <<"tab", [path |-> <<"str", <<"/", "home", "/", "u", "/", "proj", "/", "..", "/", "dep">>>>]>>

C6_WitnessOverride ==
    /\ Acted("rewrite_relative_paths")
    /\ last.args[2] = {<<"foo">>}
    /\ DOMAIN prev.toml["dependencies"][2] = {"foo", "bar"}
    /\ prev.toml["dependencies"][2]["bar"][2] =
          [path |-> <<"str", <<"..", "/", "dep">>>>, package |-> <<"str", <<"foo">>>>]
    /\ prev.toml["dependencies"][2]["foo"][2] =
          [path |-> <<"str", <<"..", "/", "dep">>>>, package |-> <<"str", <<"baz">>>>]
    /\ toml["dependencies"][2]["bar"] = prev.toml["dependencies"][2]["bar"]
    /\ toml["dependencies"][2]["foo"] /= prev.toml["dependencies"][2]["foo"]

MutationOps ==
    {"with_added_crate_type", "with_removed_crate_type", "with_profile_release_lto",
     "with_profile_release_defaults", "with_workspace", "with_metadata_package", "with_dylint"}
\* the last operation applied once more, with the same argument
Repeated ==
    CASE last.op = "with_added_crate_type"         -> with_added_crate_type(toml, last.args[1])
      [] last.op = "with_removed_crate_type"       -> with_removed_crate_type(toml, last.args[1])
      [] last.op = "with_profile_release_lto"      -> with_profile_release_lto(toml, last.args[1])
      [] last.op = "with_profile_release_defaults" -> with_profile_release_defaults(toml, last.args[1])
      [] last.op = "with_workspace"                -> with_workspace(toml)
      [] last.op = "with_metadata_package"         -> with_metadata_package(toml, flag)
      [] last.op = "with_dylint"                   -> with_dylint(toml)
RepeatedFlag == IF last.op = "with_metadata_package" THEN Repeated.flag ELSE flag
SameAgain == Repeated.ok /\ Repeated.toml = toml /\ RepeatedFlag = flag

HasLibraries(t) ==
    /\ HasTable(t, "workspace")
    /\ HasTable(t["workspace"][2], "metadata")
    /\ HasTable(t["workspace"][2]["metadata"][2], "dylint")
    /\ "libraries" \in DOMAIN t["workspace"][2]["metadata"][2]["dylint"][2]
    /\ t["workspace"][2]["metadata"][2]["dylint"][2]["libraries"][1] = "arr"
LibrariesOf(t) == t["workspace"][2]["metadata"][2]["dylint"][2]["libraries"][2]

\* C7 as stated: every mutation operation, applied a second time with the
\* same argument, leaves the document and the flag as the first application did.
C7_EveryMutationIdempotent ==
    pc = "loaded" /\ last.op \in MutationOps /\ last.ok => SameAgain

\* C7, amended: the crate-type, profile and with_workspace operations are
\* idempotent, with_metadata_package is when ".ink/abi_gen" is a member and
\* otherwise appends ".ink/metadata_gen" once more at each application, and
\* with_dylint appends its descriptor once more at each application.
C7_IdempotentExceptAppends ==
    pc = "loaded" /\ last.op \in MutationOps /\ last.ok =>
        /\ Repeated.ok /\ RepeatedFlag = flag
        /\ last.op \notin {"with_metadata_package", "with_dylint"} => Repeated.toml = toml
        /\ last.op = "with_metadata_package" =>
              IF Occurs(MembersOf(toml), LegacyMember)
              THEN Repeated.toml = toml
              ELSE /\ MembersOf(Repeated.toml) = MembersOf(toml) \o <<MetadataMember>>
                   /\ Count(MembersOf(Repeated.toml), MetadataMember) >= 2
        /\ last.op = "with_dylint" =>
              /\ HasLibraries(toml) /\ HasLibraries(Repeated.toml)
              /\ Len(LibrariesOf(Repeated.toml)) = Len(LibrariesOf(toml)) + 1
              /\ SubSeq(LibrariesOf(Repeated.toml), 1, Len(LibrariesOf(toml))) = LibrariesOf(toml)
              /\ LibrariesOf(Repeated.toml)[Len(LibrariesOf(toml)) + 1]
                    = LibrariesOf(toml)[Len(LibrariesOf(toml))]

C7_Witness ==
    /\ pc = "loaded" /\ nOps = 2
    /\ last.op = "with_metadata_package" /\ last.ok
    /\ prev.flag
    /\ Count(MembersOf(prev.toml), MetadataMember) = 1
    /\ Count(MembersOf(toml), MetadataMember) = 2

C7_WitnessIdempotent ==
    /\ pc = "loaded" /\ nOps = 2
    /\ last.op = "with_profile_release_lto" /\ last.ok
    /\ prev.toml /= toml
    /\ SameAgain

\* the sub-tree an operation targets
Target(op) ==
    CASE op \in {"with_added_crate_type", "with_removed_crate_type"} -> <<"lib", "crate-type">>
      [] op \in {"with_profile_release_lto", "with_profile_release_defaults"} -> <<"profile", "release">>
      [] op = "with_workspace"        -> <<"workspace">>
      [] op = "with_metadata_package" -> <<"workspace", "members">>
      [] op = "with_dylint"           -> <<"workspace", "metadata", "dylint", "libraries">>
\* every key of table was that is not at or under path is in now with its value
RECURSIVE Preserved(_, _, _)
Preserved(was, now, path) ==
    \A k \in DOMAIN was :
        /\ k \in DOMAIN now
        /\ IF path /= <<>> /\ k = Head(path)
           THEN \/ Len(path) = 1
                \/ /\ Len(path) > 1
                   /\ IF was[k][1] = "tab"
                      THEN now[k][1] = "tab" /\ Preserved(was[k][2], now[k][2], Tail(path))
                      ELSE now[k] = was[k]
           ELSE now[k] = was[k]

\* C8: a mutation operation, whatever it returns, keeps every key outside the
\* sub-tree it targets with its value, and with_workspace changes nothing in a
\* document that has a workspace.
C8_UnrelatedStatePreserved ==
    pc = "loaded" /\ last.op \in MutationOps =>
        /\ Preserved(prev.toml, toml, Target(last.op))
        /\ last.op = "with_workspace" /\ "workspace" \in DOMAIN prev.toml => toml = prev.toml
        /\ last.op /= "with_metadata_package" => flag = prev.flag

C8_Witness ==
    /\ Acted("with_dylint")
    /\ HasLibraries(prev.toml)
    /\ Len(LibrariesOf(toml)) = Len(LibrariesOf(prev.toml)) + 1
    /\ "docs" \in DOMAIN prev.toml["workspace"][2]["metadata"][2]
    /\ toml["workspace"][2]["metadata"][2]["docs"] = prev.toml["workspace"][2]["metadata"][2]["docs"]
    /\ toml["package"] = prev.toml["package"]

C8_WitnessWorkspace ==
    /\ Acted("with_workspace")
    /\ HasMembers(prev.toml)
    /\ Len(MembersOf(prev.toml)) > 0
    /\ toml = prev.toml

\* the directory part of the path the last write was given, the directory of
\* the auxiliary package under it, and that package's manifest
TargetPath == last.args[1]
TargetDirs ==
    IF TargetPath = <<"Cargo.toml">> THEN {}
    ELSE {SubSeq(TargetPath, 1, Len(TargetPath) - 1)}
AuxDir == SubSeq(TargetPath, 1, Len(TargetPath) - 1) \o <<".ink", "metadata_gen">>
AuxManifest == AuxDir \o <<"Cargo.toml">>
SameFile(path) ==
    /\ path \in DOMAIN files <=> path \in DOMAIN prev.files
    /\ path \in DOMAIN files => files[path] = prev.files[path]

\* C9: Manifest::new, the mutation operations and the path rewrite leave the
\* filesystem as it was; write leaves the Manifest as it was, puts the encoded
\* document at the target path when it succeeds and nowhere else, and leaves
\* the manifest it was loaded from alone when the target is another path.
C9_OnlyWriteTouchesDisk ==
    /\ pc /= "init" /\ last.op /= "write" => files = prev.files /\ dirs = prev.dirs
    /\ Called("write") =>
          /\ toml = prev.toml /\ flag = prev.flag
          /\ last.ok => TargetPath \in DOMAIN files /\ files[TargetPath] = <<"toml", toml>>
          /\ \A path \in (DOMAIN files \cup DOMAIN prev.files) \ {TargetPath, AuxManifest} :
                SameFile(path)
          /\ AuxManifest \in DOMAIN files => files[AuxManifest][1] /= "toml"
          /\ TargetPath /= <<"proj", "Cargo.toml">> => SameFile(<<"proj", "Cargo.toml">>)
          /\ ~last.ok => SameFile(TargetPath)

C9_Witness ==
    /\ Acted("write")
    /\ nOps = 2
    /\ TargetPath = <<"tmp", "Cargo.toml">>
    /\ files[TargetPath] = <<"toml", toml>>
    /\ files[<<"proj", "Cargo.toml">>] /= files[TargetPath]
    /\ TargetPath \notin DOMAIN prev.files

FieldsFound(t) ==
    /\ HasTable(t, "package")
    /\ "name" \in DOMAIN t["package"][2]
    /\ t["package"][2]["name"][1] = "str"
    /\ HasTable(t, "dependencies")
    /\ HasTable(t["dependencies"][2], "ink")
MissingField ==
    {"package section not found", "[package] name field not found",
     "[package] name should be a string", "[dependencies] section not found",
     "ink dependency not found", "ink dependency should be a table"}
\* the filesystem let write create the directories it asked for
DirsCreated ==
    /\ ~(last.args[2] = "create_dir" /\ TargetDirs /= {})
    /\ ~(last.args[2] = "create_metadata_dir" /\ flag)

\* C10: with metadata_package set, write creates the target directory, then
\* the auxiliary-package directory, then looks for the package name and the ink
\* dependency table; when one is not found it fails with a missing-field error,
\* writes no file and leaves both directories. With metadata_package not set
\* it creates no auxiliary-package directory and succeeds without the fields.
C10_WriteOrderNotTransactional ==
    Called("write") =>
        /\ flag /\ DirsCreated /\ ~FieldsFound(toml) =>
              /\ ~last.ok /\ last.err \in MissingField
              /\ files = prev.files
              /\ TargetDirs \subseteq dirs
              /\ AuxDir \in dirs
        /\ flag /\ last.args[2] = "create_metadata_dir" =>
              /\ ~last.ok /\ last.err = "io"
              /\ files = prev.files
              /\ TargetDirs \subseteq dirs
              /\ dirs \ prev.dirs \subseteq TargetDirs
        /\ flag /\ last.args[2] = "create_dir" /\ TargetDirs /= {} =>
              ~last.ok /\ dirs = prev.dirs /\ files = prev.files
        /\ flag /\ DirsCreated /\ FieldsFound(toml) /\ last.args[2] = "ok" =>
              last.ok /\ AuxDir \in dirs /\ AuxManifest \in DOMAIN files
        /\ ~flag =>
              /\ AuxDir \notin dirs
              /\ dirs \ prev.dirs \subseteq TargetDirs
              /\ last.err \notin MissingField
              /\ last.ok <=> (last.args[2] \notin {"to_string", "write"} /\ DirsCreated)

C10_Witness ==
    /\ Called("write")
    /\ flag
    /\ ~last.ok /\ last.err = "ink dependency not found"
    /\ TargetPath = <<"tmp", "Cargo.toml">>
    /\ AuxDir \in dirs /\ AuxDir \notin prev.dirs
    /\ <<"tmp">> \in dirs
    /\ TargetPath \notin DOMAIN files

\* what each mutation operation can fail with
SchemaErrors ==
    [with_added_crate_type |->
        {"lib section not found", "crate-type section not found", "crate-types should be an Array"},
     with_removed_crate_type |->
        {"lib section not found", "crate-type section not found", "crate-types should be an Array"},
     with_profile_release_lto |-> {"profile should be a table", "release should be a table"},
     with_profile_release_defaults |-> {"profile should be a table", "release should be a table"},
     with_workspace |-> {},
     with_metadata_package |-> {"workspace should be a table", "members should be an array"},
     with_dylint |->
        {"workspace section should be a table", "workspace.metadata section should be a table",
         "workspace.metadata.dylint section should be a table",
         "workspace.metadata.dylint.libraries section should be an array"}]

\* C11: a mutation operation that returns an error leaves the document as it
\* was before the call, with no table or array inserted on the way, and leaves
\* the metadata_package flag and the filesystem as they were.
C11_ErrorLeavesManifestUnchanged ==
    pc = "loaded" /\ last.op \in MutationOps /\ ~last.ok =>
        /\ last.err \in SchemaErrors[last.op]
        /\ toml = prev.toml
        /\ DOMAIN toml = DOMAIN prev.toml
        /\ flag = prev.flag
        /\ files = prev.files /\ dirs = prev.dirs

C11_Witness ==
    /\ Called("with_dylint")
    /\ ~last.ok
    /\ last.err = "workspace.metadata.dylint.libraries section should be an array"
    /\ "members" \notin DOMAIN prev.toml["workspace"][2]
    /\ toml = prev.toml

C11_WitnessFlag ==
    /\ Called("with_metadata_package")
    /\ ~last.ok
    /\ last.err = "members should be an array"
    /\ toml = prev.toml
    /\ ~flag

====
